---- MODULE Spec2Model ----
(***************************************************************************)
(* Model of gym_envs/envs/tasks/grasp.py: the Grasp task of a goal-        *)
(* conditioned manipulation environment.                                   *)
(*                                                                         *)
(* Lengths are fixed-point integers in millimetres (0.02 -> 20), rewards   *)
(* in thousandths (1.0 -> 1000).  An ndarray of shape (3,) is a 3-tuple,   *)
(* an ndarray of shape (n,3) is a tuple of n 3-tuples; Python's None and   *)
(* an array of shape (0,) are both the empty tuple, told apart by the      *)
(* field that holds them.                                                  *)
(***************************************************************************)
EXTENDS Integers, Sequences, FiniteSets, TLC

VARIABLES pc,                 \* position of the constructor / task lifecycle
          exc,                \* exception travelling out of the constructor
          rendering,          \* simulator: is rendering enabled
          scene,              \* simulator: sequence of create_* calls served
          friction,           \* simulator: friction parameters set per body
          pose,               \* simulator: body name -> position, orientation, velocities
          goal,               \* self.goal
          initial_height,     \* self.initial_height
          distance_threshold, \* self.distance_threshold
          object_size,        \* self.object_size
          goal_range_low, goal_range_high,
          obj_range_low, obj_range_high,
          draws,              \* requests served by self.np_random during the last reset()
          sampled,            \* the goal the last reset() drew
          resets,             \* number of reset() calls so far
          completed,          \* number of reset() calls that returned normally
          goal_epoch,         \* index of the reset() call that assigned self.goal
          height_epoch,       \* index of the reset() call that assigned self.initial_height
          ret                 \* the last call of the episode loop and its outcome

vars == <<pc, exc, rendering, scene, friction, pose, goal, initial_height,
          distance_threshold, object_size, goal_range_low, goal_range_high,
          obj_range_low, obj_range_high, draws, sampled, resets, completed,
          goal_epoch, height_epoch, ret>>

config == <<distance_threshold, object_size, goal_range_low, goal_range_high,
            obj_range_low, obj_range_high>>
episode == <<goal, initial_height>>
simulator == <<rendering, scene, friction, pose>>
ghost == <<draws, sampled, resets, completed, goal_epoch, height_epoch>>

----------------------------------------------------------------------------
(* Bounds *)

MaxResets == 2
MaxBatch == 2

----------------------------------------------------------------------------
(* Values *)

None == <<>>
Scale == 10 * 100              \* fixed-point scale: 1.0 is 1000 thousandths
IdentityQuat == <<0, 0, 0, 1>>
Zero3 == <<0, 0, 0>>

Abs(x) == IF x < 0 THEN -x ELSE x

Add3(a, b) == <<a[1] + b[1], a[2] + b[2], a[3] + b[3]>>

SqDist(a, b) ==
    (a[1] - b[1]) * (a[1] - b[1]) + (a[2] - b[2]) * (a[2] - b[2])
        + (a[3] - b[3]) * (a[3] - b[3])

\* floor of the square root, by bisection: lo * lo <= n < hi * hi
RECURSIVE SqrtBetween(_, _, _)
SqrtBetween(n, lo, hi) ==
    IF hi - lo <= 1 THEN lo
    ELSE LET mid == (lo + hi) \div 2 IN
         IF mid * mid <= n THEN SqrtBetween(n, mid, hi) ELSE SqrtBetween(n, lo, mid)
RECURSIVE Above(_, _)
Above(n, h) == IF h * h > n THEN h ELSE Above(n, 2 * h)
ISqrt(n) == SqrtBetween(n, 0, Above(n, 1))

\* gym_envs.utils.distance on two arrays of shape (3,)
distance(a, b) == ISqrt(SqDist(a, b))

----------------------------------------------------------------------------
(* Constructor arguments the environment may pass (millimetres) *)

\* <<distance_threshold, goal_xy_range, goal_z_range, obj_xy_range>>; the first
\* are the defaults of the constructor
ConstructorArgs ==
    {<<50, 100, 0, 100>>, <<60, 0, 200, 100>>, <<50, 100, 200, 0>>, <<60, 0, 0, 0>>}

\* the values np_random.uniform(low, high) may return for one component:
\* the ends of the interval
UniformValues(low, high) == {low, high}

\* the values np_random.random() may return, in hundredths, around the 0.3 test
RandomValues == {29, 30}

Uniform3(low, high) ==
    {<<x, y, z>> : x \in UniformValues(low[1], high[1]),
                   y \in UniformValues(low[2], high[2]),
                   z \in UniformValues(low[3], high[3])}

\* positions and velocities the physics step may leave the object with
StepStates ==
    {[orientation |-> IdentityQuat, position |-> <<0, -200, 20>>, velocity |-> Zero3],
     [orientation |-> <<0, 0, 707, 707>>, position |-> <<0, 200, 320>>,
      velocity |-> <<0, 0, 10>>]}

\* a call and its outcome; locals are the call's local variables on its return
NoCall ==
    [args |-> None, err |-> "", locals |-> None, op |-> "none", status |-> "ok",
     value |-> None]

Returned(o, as, v) ==
    [args |-> as, err |-> "", locals |-> None, op |-> o, status |-> "ok", value |-> v]

Raised(o, as, e) ==
    [args |-> as, err |-> e, locals |-> None, op |-> o, status |-> "error",
     value |-> None]

----------------------------------------------------------------------------
(* Construction *)

\* Task.__init__: the base class stores the simulator and starts without a goal
TaskInit == goal = None

\* variant: the object's range takes the goal's z range
GraspInitObjZ(threshold, goal_xy_range, goal_z_range, obj_xy_range) ==
    /\ TaskInit
    /\ initial_height = 0
    /\ distance_threshold = threshold
    /\ object_size = 40
    /\ goal_range_low = <<-(goal_xy_range \div 2), -(goal_xy_range \div 2), 0>>
    /\ goal_range_high = <<goal_xy_range \div 2, goal_xy_range \div 2, goal_z_range>>
    /\ obj_range_low = <<-(obj_xy_range \div 2), -(obj_xy_range \div 2), 0>>
    /\ obj_range_high = <<obj_xy_range \div 2, obj_xy_range \div 2, goal_z_range>>

\* Grasp.__init__ up to the scene setup
GraspInit(threshold, goal_xy_range, goal_z_range, obj_xy_range) ==
    /\ TaskInit
    /\ initial_height = 0
    /\ distance_threshold = threshold
    /\ object_size = 40
    /\ goal_range_low = <<-(goal_xy_range \div 2), -(goal_xy_range \div 2), 0>>
    /\ goal_range_high = <<goal_xy_range \div 2, goal_xy_range \div 2, goal_z_range>>
    /\ obj_range_low = <<-(obj_xy_range \div 2), -(obj_xy_range \div 2), 0>>
    /\ obj_range_high = <<obj_xy_range \div 2, obj_xy_range \div 2, 0>>

SimInit ==
    /\ rendering = TRUE
    /\ scene = <<>>
    /\ friction = <<>>
    /\ pose = <<>>

GhostInit ==
    /\ draws = <<>>
    /\ sampled = None
    /\ resets = 0
    /\ completed = 0
    /\ goal_epoch = 0
    /\ height_epoch = 0

Init ==
    /\ pc = "no_rendering"
    /\ exc = FALSE
    /\ SimInit
    /\ GhostInit
    /\ ret = NoCall
    /\ \E a \in ConstructorArgs : GraspInit(a[1], a[2], a[3], a[4])

\* PyBullet.no_rendering: rendering is off inside the with block and is back
\* on when the block is left, normally or by an exception
no_rendering_enter == FALSE
no_rendering_exit == TRUE

\* variant: the scene is created without suspending the rendering
EnterNoRenderingSkipped ==
    /\ pc = "no_rendering"
    /\ pc' = "create_scene"
    /\ UNCHANGED <<exc, simulator, config, episode, ghost, ret>>

\* Grasp.__init__ enters the with block
EnterNoRendering ==
    /\ pc = "no_rendering"
    /\ rendering' = no_rendering_enter
    /\ pc' = "create_scene"
    /\ UNCHANGED <<exc, scene, friction, pose, config, episode, ghost, ret>>

\* PyBullet.create_box: a body at rest at the given position
Box(p) ==
    [angular_velocity |-> Zero3, orientation |-> IdentityQuat, position |-> p,
     velocity |-> Zero3]

\* The simulator calls of _create_scene in order; call number failAt raises
\* (0: none does), the calls before it have taken effect.
SceneCalls == <<"plane", "table", "object", "lateral", "rolling", "target">>

Served(failAt) == IF failAt = 0 THEN Len(SceneCalls) ELSE failAt - 1

CreatesBody(i) == SceneCalls[i] \in {"plane", "table", "object", "target"}

RECURSIVE Created(_, _)
Created(i, n) ==
    IF i > n THEN <<>>
    ELSE (IF CreatesBody(i) THEN <<SceneCalls[i]>> ELSE <<>>) \o Created(i + 1, n)

create_scene(failAt) ==
    /\ pc = "create_scene"
    /\ LET n == Served(failAt) IN
        /\ scene' = scene \o Created(1, n)
        /\ pose' = [b \in {SceneCalls[i] : i \in {j \in 1..n : SceneCalls[j] \in {"object", "target"}}} |->
                      IF b = "object" THEN Box(<<0, -200, object_size \div 2>>)
                      ELSE Box(<<0, 200, 100>>)]
        /\ friction' = [k \in {SceneCalls[i] : i \in {j \in 1..n : SceneCalls[j] \in {"lateral", "rolling"}}} |->
                          IF k = "lateral" THEN 10 * Scale ELSE 10]
    /\ exc' = (failAt # 0)
    /\ pc' = "exit_no_rendering"
    /\ UNCHANGED <<rendering, config, episode, ghost, ret>>

\* Grasp.__init__ leaves the with block: an exception of the body travels on
\* to the caller of the constructor
ExitNoRendering ==
    /\ pc = "exit_no_rendering"
    /\ rendering' = no_rendering_exit
    /\ pc' = IF exc THEN "failed" ELSE "ready"
    /\ UNCHANGED <<exc, scene, friction, pose, config, episode, ghost, ret>>

----------------------------------------------------------------------------
(* Simulator interface used after construction *)

\* PyBullet.set_base_pose: position and orientation of a body are replaced
set_base_pose(poses, body, position, orientation) ==
    [poses EXCEPT ![body].position = position, ![body].orientation = orientation]

\* PyBullet.get_base_position
get_base_position(poses, body) == poses[body].position

\* PyBullet.step, driven by the episode loop between the task's calls: the
\* object moves under the robot and gravity
SimStep ==
    /\ pc = "ready"
    /\ \E s \in StepStates :
        pose' = [pose EXCEPT !["object"].position = s.position,
                             !["object"].orientation = s.orientation,
                             !["object"].velocity = s.velocity]
    /\ ret' = Returned("step", None, None)
    /\ UNCHANGED <<pc, exc, rendering, scene, friction, config, episode, ghost>>

----------------------------------------------------------------------------
(* Goal sampler *)

UniformDraw(lo, hi) == [fn |-> "uniform", high |-> hi, low |-> lo]
RandomDraw == [fn |-> "random", high |-> None, low |-> None]

\* _sample_goal, given what the generator returned: noise and u
sample_goal(noise, u) ==
    LET base == <<0, 200, 150 + object_size \div 2>>
        forced == IF u < 30 THEN <<noise[1], noise[2], 0>> ELSE noise
    IN  Add3(base, forced)

\* _sample_object, given what the generator returned
sample_object(noise) ==
    Add3(<<0, -200, object_size \div 2>>, noise)

\* variant: the object keeps the orientation it has
place_keep_orientation(poses, g, object_position, failAt) ==
    LET pose1 == IF failAt = 1 THEN poses
                 ELSE set_base_pose(poses, "target", g, IdentityQuat)
    IN  IF failAt \in {1, 2} THEN pose1
        ELSE set_base_pose(pose1, "object", object_position, pose1["object"].orientation)

\* the two set_base_pose calls of reset(): the first raises when failAt = 1,
\* the second when failAt = 2
place(poses, g, object_position, failAt) ==
    LET pose1 == IF failAt = 1 THEN poses
                 ELSE set_base_pose(poses, "target", g, IdentityQuat)
    IN  IF failAt \in {1, 2} THEN pose1
        ELSE set_base_pose(pose1, "object", object_position, IdentityQuat)

\* reset(); simulator call number failAt raises (0: none does):
\* 1 and 2 are the set_base_pose calls, 3 is get_base_position
reset(noise_g, u, noise_o, failAt) ==
    /\ pc = "ready"
    /\ resets < MaxResets
    /\ LET g == sample_goal(noise_g, u)
           object_position == sample_object(noise_o)
           pose2 == place(pose, g, object_position, failAt)
       IN  /\ goal' = g
           /\ goal_epoch' = resets + 1
           /\ draws' = <<UniformDraw(goal_range_low, goal_range_high), RandomDraw,
                         UniformDraw(obj_range_low, obj_range_high)>>
           /\ sampled' = g
           /\ pose' = pose2
           /\ IF failAt = 0
                THEN /\ initial_height' = get_base_position(pose2, "object")[3]
                     /\ height_epoch' = resets + 1
                     /\ completed' = completed + 1
                     /\ ret' = [Returned("reset", None, None)
                                   EXCEPT !.locals = <<g, object_position>>]
                ELSE /\ UNCHANGED <<initial_height, height_epoch, completed>>
                     /\ ret' = [Raised("reset", None, "SimulatorError")
                                   EXCEPT !.locals = <<g, object_position>>]
    /\ resets' = resets + 1
    /\ UNCHANGED <<pc, exc, rendering, scene, friction, config>>

Reset ==
    \E noise_g \in Uniform3(goal_range_low, goal_range_high), u \in RandomValues,
       noise_o \in Uniform3(obj_range_low, obj_range_high), failAt \in 0..3 :
        reset(noise_g, u, noise_o, failAt)

----------------------------------------------------------------------------
(* Observation extractor *)

get_obs ==
    /\ pc = "ready"
    /\ LET o == pose["object"] IN
        ret' = Returned("get_obs", None,
                        o.position \o o.orientation \o o.velocity \o o.angular_velocity)
    /\ UNCHANGED <<pc, exc, simulator, config, episode, ghost>>

get_achieved_goal ==
    /\ pc = "ready"
    /\ ret' = Returned("get_achieved_goal", None, get_base_position(pose, "object"))
    /\ UNCHANGED <<pc, exc, simulator, config, episode, ghost>>

\* variant: a vector of zeros stands in for the missing goal
get_desired_goal_default ==
    /\ pc = "ready"
    /\ ret' = Returned("get_desired_goal", None, IF goal = None THEN Zero3 ELSE goal)
    /\ UNCHANGED <<pc, exc, simulator, config, episode, ghost>>

get_desired_goal ==
    /\ pc = "ready"
    /\ ret' = IF goal = None
                THEN Raised("get_desired_goal", None, "RuntimeError")
                ELSE Returned("get_desired_goal", None, goal)
    /\ UNCHANGED <<pc, exc, simulator, config, episode, ghost>>

----------------------------------------------------------------------------
(* Success predicate and height helpers *)

\* variant: the threshold is inclusive
is_success_inclusive(achieved_goal, desired_goal) ==
    /\ pc = "ready"
    /\ ret' = Returned("is_success", <<achieved_goal, desired_goal>>,
                       distance(achieved_goal, desired_goal) <= distance_threshold)
    /\ UNCHANGED <<pc, exc, simulator, config, episode, ghost>>

is_success(achieved_goal, desired_goal) ==
    /\ pc = "ready"
    /\ ret' = Returned("is_success", <<achieved_goal, desired_goal>>,
                       distance(achieved_goal, desired_goal) < distance_threshold)
    /\ UNCHANGED <<pc, exc, simulator, config, episode, ghost>>

height_penalty(pos_obj) ==
    /\ pc = "ready"
    /\ ret' = Returned("height_penalty", <<pos_obj>>,
                       IF pos_obj[3] - initial_height > 150 THEN 1 ELSE 0)
    /\ UNCHANGED <<pc, exc, simulator, config, episode, ghost>>

Clip(x, lo, hi) == IF x < lo THEN lo ELSE IF x > hi THEN hi ELSE x

\* variant: the reference height follows the object down
height_diff_rebase(pos_obj) ==
    /\ pc = "ready"
    /\ ret' = Returned("height_diff", <<pos_obj>>,
                       Clip(pos_obj[3] - initial_height, 0, 150))
    /\ initial_height' = IF pos_obj[3] < initial_height THEN pos_obj[3] ELSE initial_height
    /\ UNCHANGED <<pc, exc, simulator, config, goal, ghost>>

height_diff(pos_obj) ==
    /\ pc = "ready"
    /\ ret' = Returned("height_diff", <<pos_obj>>,
                       Clip(pos_obj[3] - initial_height, 0, 150))
    /\ UNCHANGED <<pc, exc, simulator, config, episode, ghost>>

----------------------------------------------------------------------------
(* Reward *)

\* ndarrays: with ndim 0 the values are a scalar, with ndim 1 a tuple of
\* scalars, with ndim 2 a tuple of rows
Array(n, elems) == [ndim |-> n, values |-> elems]

Shape(x) ==
    IF x.ndim = 0 THEN <<>>
    ELSE IF x.ndim = 1 THEN <<Len(x.values)>>
    ELSE <<Len(x.values), 3>>

\* the info argument: a dict of fields (one record), or a list of such dicts
Dict(d) == [kind |-> "dict", records |-> d]
List(l) == [kind |-> "list", records |-> l]

Keys == {"pos_tcp", "grasp", "collisions"}

HasKeys(d) == Keys \subseteq DOMAIN d

Extracted(p, g, c) ==
    [collisions |-> c, err |-> "", gripper_action |-> g, pos_tcp |-> p, raised |-> FALSE]

Failed(e) ==
    [collisions |-> None, err |-> e, gripper_action |-> None, pos_tcp |-> None,
     raised |-> TRUE]

\* variant: a field missing from a record of a sequence reads as a default
Get(d, k, default) == IF k \in DOMAIN d THEN d[k] ELSE default

try_block_default(info) ==
    IF info.kind = "dict"
    THEN IF DOMAIN info.records = {}
         THEN Extracted(Array(1, <<>>), Array(1, <<>>), Array(1, <<>>))
         ELSE Failed("TypeError")
    ELSE LET n == Len(info.records) IN
         Extracted(
            Array(IF n = 0 THEN 1 ELSE 2, [i \in 1..n |-> Get(info.records[i], "pos_tcp", Zero3)]),
            Array(1, [i \in 1..n |-> Get(info.records[i], "grasp", FALSE)]),
            Array(1, [i \in 1..n |-> Get(info.records[i], "collisions", FALSE)]))

\* the try block of compute_reward: info is iterated and every element is
\* indexed by field name.  Iterating a dict yields its keys, and indexing a
\* string by a name raises; an empty dict or list yields empty arrays.
try_block(info) ==
    IF info.kind = "dict"
    THEN IF DOMAIN info.records = {}
         THEN Extracted(Array(1, <<>>), Array(1, <<>>), Array(1, <<>>))
         ELSE Failed("TypeError")
    ELSE LET n == Len(info.records) IN
         IF \A i \in 1..n : HasKeys(info.records[i])
         THEN Extracted(
                Array(IF n = 0 THEN 1 ELSE 2, [i \in 1..n |-> info.records[i]["pos_tcp"]]),
                Array(1, [i \in 1..n |-> info.records[i]["grasp"]]),
                Array(1, [i \in 1..n |-> info.records[i]["collisions"]]))
         ELSE Failed("KeyError")

\* variant: the bare record's grasp flag is taken for its collision flag
except_block_grasp(info) ==
    IF info.kind = "list" THEN Failed("TypeError")
    ELSE IF ~ HasKeys(info.records) THEN Failed("KeyError")
    ELSE Extracted(Array(1, info.records["pos_tcp"]),
                   Array(0, info.records["grasp"]),
                   Array(0, info.records["grasp"]))

\* the except block: info is indexed by field name itself
except_block(info) ==
    IF info.kind = "list" THEN Failed("TypeError")
    ELSE IF ~ HasKeys(info.records) THEN Failed("KeyError")
    ELSE Extracted(Array(1, info.records["pos_tcp"]),
                   Array(0, info.records["grasp"]),
                   Array(0, info.records["collisions"]))

\* gym_envs.utils.distance on arrays: the norm of a - b along the last axis
distance_nd(a, b) ==
    IF a.ndim = 1 THEN Array(0, distance(a.values, b.values))
    ELSE Array(1, [i \in 1..Len(a.values) |-> distance(a.values[i], b.values[i])])

Compatible(a, b) ==
    /\ Shape(a) = Shape(b)
    /\ a.ndim \in {1, 2}
    /\ Shape(a)[a.ndim] = 3

\* variant: the tolerances are inclusive
InPositionInclusive(tcp, obj) ==
    /\ Abs(tcp[1] - obj[1]) <= 20
    /\ Abs(tcp[2] - obj[2]) <= 20
    /\ Abs(tcp[3] - obj[3]) <= 10

InPosition(tcp, obj) ==
    /\ Abs(tcp[1] - obj[1]) < 20
    /\ Abs(tcp[2] - obj[2]) < 20
    /\ Abs(tcp[3] - obj[3]) < 10

check_position_for_grasp(pos_tcp, pos_obj) ==
    IF pos_tcp.ndim = 1 THEN Array(0, InPosition(pos_tcp.values, pos_obj.values))
    ELSE Array(1, [i \in 1..Len(pos_tcp.values) |-> InPosition(pos_tcp.values[i], pos_obj.values[i])])

\* element i of an array that is a scalar or a tuple of scalars
Elem(x, i) == IF x.ndim = 0 THEN x.values ELSE x.values[i]

Count(x) == IF x.ndim = 0 THEN 1 ELSE Len(x.values)

\* the array shaped like x with the elements f
Like(x, f) == IF x.ndim = 0 THEN Array(0, f[1]) ELSE Array(1, f)

AsInt(p) == IF p THEN 1 ELSE 0

\* the body of compute_reward after the extraction
total_reward(pos_tcp, collisions, achieved_goal, desired_goal) ==
    LET reach_reward == distance_nd(pos_tcp, achieved_goal)
        position_for_grasp == check_position_for_grasp(pos_tcp, achieved_goal)
        I == 1..Count(position_for_grasp)
        grasp_reward ==
            Like(position_for_grasp,
                 [i \in I |-> AsInt(Elem(position_for_grasp, i) /\ Elem(collisions, i))])
        penalty_for_pushing ==
            Like(position_for_grasp,
                 [i \in I |-> AsInt(Elem(collisions, i) /\ ~ Elem(position_for_grasp, i))])
        obj_to_target == distance_nd(achieved_goal, desired_goal)
    IN  Like(reach_reward,
             [i \in I |-> - Elem(reach_reward, i)
                          + Scale * AsInt(Elem(position_for_grasp, i))
                          + 5 * Scale * Elem(grasp_reward, i)
                          - 10 * Elem(obj_to_target, i)
                          - 2 * Scale * Elem(penalty_for_pushing, i)])

\* compute_reward as a function of its arguments
reward_of(achieved_goal, desired_goal, info) ==
    LET t == try_block(info)
        x == IF t.raised THEN except_block(info) ELSE t
    IN  IF x.raised THEN [err |-> x.err, status |-> "error", value |-> None]
        ELSE IF ~ (Compatible(x.pos_tcp, achieved_goal)
                   /\ Compatible(achieved_goal, desired_goal))
        THEN [err |-> "ValueError", status |-> "error", value |-> None]
        ELSE [err |-> "", status |-> "ok",
              value |-> total_reward(x.pos_tcp, x.collisions, achieved_goal, desired_goal)]

compute_reward(achieved_goal, desired_goal, info) ==
    /\ pc = "ready"
    /\ LET r == reward_of(achieved_goal, desired_goal, info) IN
        ret' = [args |-> <<achieved_goal, desired_goal, info>>, err |-> r.err,
                locals |-> None, op |-> "compute_reward", status |-> r.status,
                value |-> r.value]
    /\ UNCHANGED <<pc, exc, simulator, config, episode, ghost>>

----------------------------------------------------------------------------
(* Calls of the episode loop *)

Sample(a, d, p, g, c) ==
    [achieved |-> a, desired |-> d,
     info |-> [collisions |-> c, grasp |-> g, pos_tcp |-> p]]

\* a record of info with only the fields K
Restrict(d, K) == [k \in K |-> d[k]]

\* one sample passed as a bare record and as arrays of shape (3,)
DictCall(s, K) ==
    <<Array(1, s.achieved), Array(1, s.desired), Dict(Restrict(s.info, K))>>

\* samples passed as a sequence of records and as arrays of shape (n,3)
ListCall(ss, Ks) ==
    <<Array(2, [i \in 1..Len(ss) |-> ss[i].achieved]),
      Array(2, [i \in 1..Len(ss) |-> ss[i].desired]),
      List([i \in 1..Len(ss) |-> Restrict(ss[i].info, Ks[i])])>>

\* points around the tolerances of the grasp position and far from them
RewardPoints ==
    {<<0, 0, 0>>, <<19, 19, 9>>, <<20, 0, 0>>, <<0, 20, 0>>, <<0, 0, 10>>,
     <<1000, 0, 0>>}

RewardSamples ==
    {Sample(a, d, p, g, c) : a \in RewardPoints, d \in RewardPoints,
                             p \in RewardPoints, g \in BOOLEAN, c \in BOOLEAN}

BatchSamples ==
    {Sample(<<0, 0, 0>>, <<1000, 0, 0>>, <<0, 0, 0>>, FALSE, TRUE),
     Sample(<<0, 0, 0>>, <<0, 0, 10>>, <<20, 0, 0>>, TRUE, TRUE),
     Sample(<<19, 19, 9>>, <<0, 0, 0>>, <<0, 0, 0>>, TRUE, FALSE)}

LoopSamples ==
    {Sample(<<0, 0, 0>>, <<1000, 0, 0>>, <<0, 0, 0>>, FALSE, TRUE),
     Sample(<<0, 0, 0>>, <<0, 0, 10>>, <<20, 0, 0>>, TRUE, TRUE)}

\* pairs around the success thresholds: distances 40, 49, 50, 51, 59, 60, 61
SuccessPairs ==
    {<<<<0, 0, 0>>, <<0, 0, d>>>> : d \in {40, 49, 50, 51, 59, 60, 61}}
        \cup {<<<<0, 0, 0>>, <<30, 40, 0>>>>, <<<<10, 0, 0>>, <<10, 36, 48>>>>}

HeightPoints == {<<0, 0, 10>>, <<0, 0, 170>>, <<0, 0, 171>>}

\* the calls of the episode loop: well-formed info in both shapes
LoopCalls ==
    {DictCall(s, Keys) : s \in LoopSamples}
        \cup {ListCall(<<s>>, <<Keys>>) : s \in LoopSamples}

ComputeReward == \E c \in LoopCalls : compute_reward(c[1], c[2], c[3])

IsSuccess == \E p \in SuccessPairs : is_success(p[1], p[2])

HeightPenalty == \E p \in HeightPoints : height_penalty(p)

HeightDiff == \E p \in HeightPoints : height_diff(p)

CreateScene == \E failAt \in 0..Len(SceneCalls) : create_scene(failAt)

Next ==
    \/ EnterNoRendering
    \/ CreateScene
    \/ ExitNoRendering
    \/ Reset
    \/ SimStep
    \/ get_obs
    \/ get_achieved_goal
    \/ get_desired_goal
    \/ IsSuccess
    \/ ComputeReward
    \/ HeightPenalty
    \/ HeightDiff

Spec == Init /\ [][Next]_vars

\* The reward as a function: a constructed task with the default arguments,
\* about to be called with a sample as a bare record, or with a sequence of
\* up to MaxBatch records
Pending(c) ==
    [args |-> c, err |-> "", locals |-> None, op |-> "compute_reward",
     status |-> "pending", value |-> None]

InitReward ==
    /\ pc = "ready"
    /\ exc = FALSE
    /\ rendering = TRUE
    /\ scene = <<"plane", "table", "object", "target">>
    /\ friction = [k \in {"lateral", "rolling"} |-> IF k = "lateral" THEN 10 * Scale ELSE 10]
    /\ pose = [b \in {"object", "target"} |->
                 IF b = "object" THEN Box(<<0, -200, 20>>) ELSE Box(<<0, 200, 100>>)]
    /\ GhostInit
    /\ GraspInit(50, 100, 0, 100)
    /\ \/ \E s \in RewardSamples, K \in SUBSET Keys : ret = Pending(DictCall(s, K))
       \/ \E n \in 0..MaxBatch :
            \E ss \in [1..n -> IF n = 1 THEN RewardSamples ELSE BatchSamples],
               Ks \in [1..n -> SUBSET Keys] :
                ret = Pending(ListCall(ss, Ks))

NextReward ==
    /\ ret.status = "pending"
    /\ compute_reward(ret.args[1], ret.args[2], ret.args[3])

SpecReward == InitReward /\ [][NextReward]_vars

----------------------------------------------------------------------------
(* Properties *)

ReadOps ==
    {"get_obs", "get_achieved_goal", "get_desired_goal", "is_success",
     "compute_reward", "height_penalty", "height_diff"}

\* C1: get_desired_goal called before any reset() fails with the "no goal"
\* RuntimeError and returns no vector; called after at least one completed
\* reset() it returns the goal drawn by the most recent reset().
C1_DesiredGoal ==
    ret.op = "get_desired_goal" =>
        /\ resets = 0 =>
            ret.status = "error" /\ ret.err = "RuntimeError" /\ ret.value = None
        /\ completed >= 1 => ret.status = "ok" /\ ret.value = sampled

C1_Witness ==
    /\ ret.op = "get_desired_goal"
    /\ resets = 0
    /\ ret.status = "error"

\* C2: goal and initial_height are set together: in every state both were
\* assigned by the same reset() call or neither was assigned by any.
C2_SetTogether == goal_epoch = height_epoch

\* C5: is_success is true exactly when the euclidean distance of its
\* arguments is strictly below distance_threshold, whatever the episode state.
C5_Success ==
    ret.op = "is_success" =>
        /\ ret.status = "ok"
        /\ ret.value = (SqDist(ret.args[1], ret.args[2])
                            < distance_threshold * distance_threshold)

C5_Witness ==
    /\ ret.op = "is_success"
    /\ completed >= 1
    /\ SqDist(ret.args[1], ret.args[2]) = distance_threshold * distance_threshold
    /\ ret.value = FALSE

\* C7: scene bodies are created only by the constructor's scene setup while
\* rendering is suspended, each body once; rendering is back on when the
\* constructor is left, also when the scene setup failed; no later operation
\* creates a body.
FullScene == <<"plane", "table", "object", "target">>

C7_SceneOnce ==
    /\ [](/\ \E n \in 0..Len(FullScene) : scene = SubSeq(FullScene, 1, n)
          /\ pc = "ready" => scene = FullScene
          /\ pc \in {"ready", "failed"} => rendering)
    /\ [][scene' # scene => pc = "create_scene" /\ ~ rendering /\ ~ rendering']_vars

C7_Witness ==
    /\ pc = "failed"
    /\ rendering
    /\ scene = <<"plane", "table">>

\* C8: the read operations (get_obs, get_achieved_goal, get_desired_goal,
\* is_success, compute_reward, height_penalty, height_diff) leave the
\* simulator, the configuration and the episode state as they were.
C8_ReadOnly ==
    [][ret'.op \in ReadOps => UNCHANGED <<simulator, config, episode>>]_vars

C8_Witness ==
    /\ ret.op = "height_diff"
    /\ completed >= 1
    /\ ret.args[1][3] < initial_height

\* C9: the object position drawn by every reset() has z equal to half the
\* object size, and x and y within the configured range around (0, -0.2);
\* the z range of the object is [0, 0].
C9_ObjectOnTable ==
    /\ obj_range_low[3] = 0
    /\ obj_range_high[3] = 0
    /\ ret.op = "reset" =>
        LET p == ret.locals[2] IN
        /\ p[3] = object_size \div 2
        /\ obj_range_low[1] <= p[1] /\ p[1] <= obj_range_high[1]
        /\ obj_range_low[2] <= p[2] + 200 /\ p[2] + 200 <= obj_range_high[2]

C9_Witness ==
    /\ ret.op = "reset"
    /\ goal_range_high[3] = 200
    /\ ret.locals[2] = <<50, -150, 20>>

\* C10: after a completed reset() the target body is at the drawn goal and
\* the object body at the drawn position, both with the identity quaternion,
\* initial_height is the object's z in the simulator, and the generator has
\* served the goal offset, the z-forcing draw and the object offset in order.
C10_ResetPlaces ==
    (ret.op = "reset" /\ ret.status = "ok") =>
        /\ goal = ret.locals[1]
        /\ pose["target"].position = ret.locals[1]
        /\ pose["target"].orientation = IdentityQuat
        /\ pose["object"].position = ret.locals[2]
        /\ pose["object"].orientation = IdentityQuat
        /\ initial_height = pose["object"].position[3]
        /\ draws = <<UniformDraw(goal_range_low, goal_range_high), RandomDraw,
                     UniformDraw(obj_range_low, obj_range_high)>>

C10_Witness ==
    /\ ret.op = "reset"
    /\ ret.status = "ok"
    /\ completed = 2
    /\ ret.locals[1][3] = 370

----------------------------------------------------------------------------
(* Properties of the reward *)

Done == ret.op = "compute_reward" /\ ret.status # "pending"

\* a bare record with every field
WellFormedRecord(info) == info.kind = "dict" /\ HasKeys(info.records)

\* info lacks a field, in the record or in a record of the sequence
Malformed(info) ==
    IF info.kind = "dict" THEN ~ HasKeys(info.records)
    ELSE \E i \in 1..Len(info.records) : ~ HasKeys(info.records[i])

\* the call that passes a bare-record call's sample as a batch of one
AsBatch(args) ==
    <<Array(2, <<args[1].values>>), Array(2, <<args[2].values>>), List(<<args[3].records>>)>>

\* C3: a sample passed as a bare record and the same sample passed as a
\* sequence of one record both succeed and give the same reward value.
C3_ShapeSymmetric ==
    (Done /\ WellFormedRecord(ret.args[3])) =>
        LET b == AsBatch(ret.args)
            r == reward_of(b[1], b[2], b[3])
        IN  /\ ret.status = "ok"
            /\ r.status = "ok"
            /\ r.value = Array(1, <<ret.value.values>>)

C3_Witness ==
    /\ Done
    /\ WellFormedRecord(ret.args[3])
    /\ ret.args[3].records["collisions"] /\ ~ ret.args[3].records["grasp"]
    /\ ret.status = "ok"
    /\ ret.value.values = 6 * Scale - 10 * 20

\* the reward of one sample as the sum of its five terms
RewardTerms(achieved, desired, pos_tcp, collisions) ==
    LET near == /\ Abs(pos_tcp[1] - achieved[1]) < 20
                /\ Abs(pos_tcp[2] - achieved[2]) < 20
                /\ Abs(pos_tcp[3] - achieved[3]) < 10
    IN  - ISqrt(SqDist(pos_tcp, achieved))
        + (IF near THEN Scale ELSE 0)
        + (IF near /\ collisions THEN 5 * Scale ELSE 0)
        - 10 * ISqrt(SqDist(achieved, desired))
        - (IF collisions /\ ~ near THEN 2 * Scale ELSE 0)

ExampleCall ==
    DictCall(Sample(<<0, 0, 0>>, <<1000, 0, 0>>, <<0, 0, 0>>, FALSE, TRUE), Keys)

\* C4: the reward of every sample is -reach_reward + position_for_grasp
\* + 5 grasp_reward - 10 obj_to_target - 2 penalty_for_pushing; the sample
\* pos_tcp = achieved = (0,0,0), desired = (1,0,0), collisions = true gives -4.
C4_RewardFormula ==
    /\ (Done /\ ret.status = "ok") =>
        IF ret.args[3].kind = "dict"
        THEN ret.value = Array(0, RewardTerms(ret.args[1].values, ret.args[2].values,
                                              ret.args[3].records["pos_tcp"],
                                              ret.args[3].records["collisions"]))
        ELSE ret.value =
                Array(1, [i \in 1..Len(ret.args[3].records) |->
                            RewardTerms(ret.args[1].values[i], ret.args[2].values[i],
                                        ret.args[3].records[i]["pos_tcp"],
                                        ret.args[3].records[i]["collisions"])])
    /\ (Done /\ ret.args = ExampleCall) => ret.value = Array(0, -4 * Scale)

C4_Witness ==
    /\ Done
    /\ ret.args = ExampleCall
    /\ ret.value = Array(0, -4 * Scale)

\* C6: when a field is missing from the info record, or from a record of the
\* info sequence, compute_reward raises and returns no reward.
C6_MalformedRaises ==
    (Done /\ Malformed(ret.args[3])) => (ret.status = "error" /\ ret.value = None)

C6_Witness ==
    /\ Done
    /\ ret.args[3].kind = "list"
    /\ Len(ret.args[3].records) = 2
    /\ HasKeys(ret.args[3].records[1])
    /\ DOMAIN ret.args[3].records[2] = {"pos_tcp", "collisions"}
    /\ ret.status = "error"

====
